---- MODULE Spec2Model ----
(***************************************************************************)
(* Lead-Scoring-Customer-Insights-Engine: the chunker (preprocess.py), the *)
(* persisted FAISS index (create_vector_store.py), the RAG pipeline        *)
(* (rag_pipeline.py), the lead scorer (lead_scoring.py) and the Streamlit  *)
(* script (app.py), modelled as a state machine.                           *)
(*                                                                         *)
(* A Python dict is a TLA+ record whose DOMAIN is the dict's key set, so   *)
(* `'score' in s` is "score" \in DOMAIN s.  An f-string is the tuple of    *)
(* its literal and interpolated parts.  A JSON value that may be of        *)
(* several Python types is a record [t |-> type, v |-> value].             *)
(***************************************************************************)
EXTENDS Integers, Sequences, FiniteSets, TLC

VARIABLES
    disk,       \* the directory "faiss_index": [dir, faiss, pkl, matched]
    builder,    \* the create_vector_store process: [pc, n]
    cache,      \* st.cache_resource: api key -> cached pipelines, or NotCached
    view        \* what the last call / script run returned and displayed

vars == <<disk, builder, cache, view>>

-----------------------------------------------------------------------------
(* Bounds *)

MaxChunks == 4      \* most chunks load_and_chunk_documents yields for a corpus
MaxDocLen == 3      \* most characters in a document that is chunked
NumDocs == 2        \* files matched by glob("mock_docs/*.txt")

(* Program constants *)

K == 3              \* search_kwargs={"k": 3}

Keys == {"key1"}                    \* non-empty API keys typed in the sidebar
Queries == {"", "q1", "q2"}         \* query strings; "" is the empty query
LlmOutcomes == {"ok", "timeout", "quota", "malformed"}

\* The language model is reached only with a non-empty query.
LlmChoices(q) == IF q = "" THEN {"none"} ELSE LlmOutcomes

QNum(q) == IF q = "q1" THEN 1 ELSE IF q = "q2" THEN 2 ELSE 0

-----------------------------------------------------------------------------
(* The persisted index: index.faiss and index.pkl in one directory.  A     *)
(* file is absent, half-written (there, not ok) or complete, holding n     *)
(* entries.  matched: index.pkl was written by the same run of             *)
(* create_vector_store as index.faiss.                                     *)

NoFile == [there |-> FALSE, ok |-> FALSE, n |-> 0]
PartialFile == [there |-> TRUE, ok |-> FALSE, n |-> 0]
CompleteFile(n) == [there |-> TRUE, ok |-> TRUE, n |-> n]

NoDisk == [dir |-> FALSE, faiss |-> NoFile, pkl |-> NoFile, matched |-> FALSE]

\* The path holds one complete index: both files whole and of the same build.
CompleteIndex(d) ==
    /\ d.dir
    /\ d.faiss.ok /\ d.pkl.ok
    /\ d.matched

IdleBuilder == [pc |-> "idle", n |-> 0]

-----------------------------------------------------------------------------
(* preprocess.py: load_and_chunk_documents *)

\* A text is a sequence of characters.  strip() removes these.
Chars == {"a", " ", "\n"}
Whitespace == {" ", "\n"}

chunk_size == 450       \* RecursiveCharacterTextSplitter(chunk_size=450, ...)
chunk_overlap == 50     \* chunk_overlap=50

\* The splitter's default separators: "\n\n", "\n", " ", "".
Separators == << <<"\n", "\n">>, <<"\n">>, <<" ">>, <<>> >>

Texts(n) == UNION {[1..m -> Chars] : m \in 0..n}

\* "".join(parts)
RECURSIVE Join(_)
Join(parts) == IF parts = <<>> THEN <<>> ELSE Head(parts) \o Join(Tail(parts))

\* str.strip()
RECURSIVE LStrip(_)
LStrip(t) == IF t # <<>> /\ Head(t) \in Whitespace THEN LStrip(Tail(t)) ELSE t

RECURSIVE RStrip(_)
RStrip(t) ==
    IF t # <<>> /\ t[Len(t)] \in Whitespace
       THEN RStrip(SubSeq(t, 1, Len(t) - 1)) ELSE t

Strip(t) == RStrip(LStrip(t))

\* Where re.search(re.escape(sep), text) matches first; 0 when it does not.
Matches(text, sep) ==
    {i \in 1..(Len(text) - Len(sep) + 1) : SubSeq(text, i, i + Len(sep) - 1) = sep}

FirstMatch(text, sep) ==
    IF Matches(text, sep) = {} THEN 0
    ELSE CHOOSE i \in Matches(text, sep) : \A j \in Matches(text, sep) : i <= j

\* re.split(sep, text) for a non-empty sep: the pieces between the leftmost
\* non-overlapping matches.
RECURSIVE ReSplit(_, _)
ReSplit(text, sep) ==
    LET i == FirstMatch(text, sep)
    IN  IF i = 0 THEN <<text>>
        ELSE <<SubSeq(text, 1, i - 1)>>
             \o ReSplit(SubSeq(text, i + Len(sep), Len(text)), sep)

\* _split_text_with_regex with keep_separator=True (the default): each
\* separator stays at the start of the piece after it; list(text) for the
\* separator ""; empty pieces are dropped.
split_text_with_regex(text, sep) ==
    LET pieces == ReSplit(text, sep)
        splits ==
            IF sep = <<>> THEN [i \in 1..Len(text) |-> <<text[i]>>]
            ELSE <<pieces[1]>> \o [j \in 1..(Len(pieces) - 1) |-> sep \o pieces[j + 1]]
    IN  SelectSeq(splits, LAMBDA p : p # <<>>)

\* _join_docs with the separator "" and strip_whitespace=True (the default):
\* the joined text stripped, or None (here <<>>: no chunk) when nothing is left.
join_docs(docs) ==
    LET text == Strip(Join(docs))
    IN  IF text = <<>> THEN <<>> ELSE <<text>>

\* The while loop of _merge_splits: drop pieces from the front until the kept
\* tail is within the overlap and the next piece fits.
RECURSIVE DropFront(_, _, _, _, _)
DropFront(cur, total, len, size, overlap) ==
    IF total > overlap \/ (total + len > size /\ total > 0)
       THEN DropFront(Tail(cur), total - Len(Head(cur)), len, size, overlap)
       ELSE [cur |-> cur, total |-> total]

\* _merge_splits with the separator "": pack the pieces into chunks of at most
\* size characters, each starting with the overlap kept from the one before.
RECURSIVE MergeFrom(_, _, _, _, _, _)
MergeFrom(splits, docs, cur, total, size, overlap) ==
    IF splits = <<>> THEN docs \o join_docs(cur)
    ELSE LET d == Head(splits)
             full == total + Len(d) > size
             kept == IF full /\ cur # <<>>
                        THEN DropFront(cur, total, Len(d), size, overlap)
                        ELSE [cur |-> cur, total |-> total]
             out == IF full /\ cur # <<>> THEN docs \o join_docs(cur) ELSE docs
         IN  MergeFrom(Tail(splits), out, Append(kept.cur, d),
                       kept.total + Len(d), size, overlap)

merge_splits(splits, size, overlap) == MergeFrom(splits, <<>>, <<>>, 0, size, overlap)

\* The first separator of the list found in the text ("" is always found),
\* as an index into the list.
PickSeparator(text, separators) ==
    CHOOSE i \in 1..Len(separators) :
        /\ separators[i] = <<>> \/ FirstMatch(text, separators[i]) # 0
           \/ i = Len(separators)
        /\ \A j \in 1..(i - 1) :
              separators[j] # <<>> /\ FirstMatch(text, separators[j]) = 0

\* RecursiveCharacterTextSplitter._split_text: split on the first separator
\* found, merge the pieces shorter than size, split a longer piece again on
\* the separators that follow (or keep it whole when none follow).
RECURSIVE split_text(_, _, _, _)
RECURSIVE SplitLoop(_, _, _, _, _, _)
SplitLoop(splits, final, good, rest, size, overlap) ==
    IF splits = <<>>
       THEN IF good # <<>> THEN final \o merge_splits(good, size, overlap) ELSE final
    ELSE LET p == Head(splits)
         IN  IF Len(p) < size
                THEN SplitLoop(Tail(splits), final, Append(good, p), rest,
                               size, overlap)
                ELSE LET merged == IF good # <<>>
                                      THEN final \o merge_splits(good, size, overlap)
                                      ELSE final
                         other == IF rest = <<>> THEN <<p>>
                                  ELSE split_text(p, rest, size, overlap)
                     IN  SplitLoop(Tail(splits), merged \o other, <<>>, rest,
                                   size, overlap)

split_text(text, separators, size, overlap) ==
    LET i == PickSeparator(text, separators)
        separator == separators[i]
        found == separator # <<>> /\ FirstMatch(text, separator) # 0
        new_separators ==
            IF found THEN SubSeq(separators, i + 1, Len(separators)) ELSE <<>>
    IN  SplitLoop(split_text_with_regex(text, separator), <<>>, <<>>,
                  new_separators, size, overlap)

\* TextSplitter.split_documents: the chunks of every document in turn, each
\* with the metadata (the source file) of its document.
RECURSIVE split_documents(_, _)
split_documents(documents, i) ==
    IF i > Len(documents) THEN <<>>
    ELSE LET texts == split_text(documents[i], Separators, chunk_size, chunk_overlap)
         IN  [j \in 1..Len(texts) |->
                 [page_content |-> texts[j], metadata |-> [source |-> i]]]
             \o split_documents(documents, i + 1)

NoChunking == [ran |-> FALSE]

\* Lines 10-40: load every *.txt file (documents[i] is the text of the i-th),
\* return [] when there is none, else the chunks.
load_and_chunk_documents(documents) ==
    [ran |-> TRUE, documents |-> documents,
     chunks |-> IF documents = <<>> THEN <<>> ELSE split_documents(documents, 1)]

-----------------------------------------------------------------------------
(* create_vector_store.py *)

\* Lines 13-39: chunk, initialise the embeddings, build the store in memory.
\* No chunks, or a failure of the embedder or of FAISS.from_documents,
\* returns without touching the disk.
create_vector_store(n, ok) ==
    /\ builder.pc = "idle"
    /\ IF n = 0 \/ ~ok
          THEN UNCHANGED builder
          ELSE builder' = [pc |-> "built", n |-> n]
    /\ UNCHANGED <<disk, cache, view>>

\* Lines 42-43: if not os.path.exists(output_path): os.makedirs(output_path)
makedirs ==
    /\ builder.pc = "built"
    /\ disk' = [disk EXCEPT !.dir = TRUE]
    /\ builder' = [builder EXCEPT !.pc = "save"]
    /\ UNCHANGED <<cache, view>>

\* Line 44, save_local: faiss.write_index opens index.faiss in place ...
save_faiss_open ==
    /\ builder.pc = "save"
    /\ disk' = [disk EXCEPT !.faiss = PartialFile, !.matched = FALSE]
    /\ builder' = [builder EXCEPT !.pc = "faiss_open"]
    /\ UNCHANGED <<cache, view>>

\* ... and writes it out.
save_faiss_write ==
    /\ builder.pc = "faiss_open"
    /\ disk' = [disk EXCEPT !.faiss = CompleteFile(builder.n)]
    /\ builder' = [builder EXCEPT !.pc = "faiss_done"]
    /\ UNCHANGED <<cache, view>>

\* Line 44, save_local: open(index.pkl, "wb") truncates the file in place ...
save_pkl_open ==
    /\ builder.pc = "faiss_done"
    /\ disk' = [disk EXCEPT !.pkl = PartialFile]
    /\ builder' = [builder EXCEPT !.pc = "pkl_open"]
    /\ UNCHANGED <<cache, view>>

\* ... and pickle.dump writes (docstore, index_to_docstore_id); line 45.
save_pkl_write ==
    /\ builder.pc = "pkl_open"
    /\ disk' = [disk EXCEPT !.pkl = CompleteFile(builder.n), !.matched = TRUE]
    /\ builder' = IdleBuilder
    /\ UNCHANGED <<cache, view>>

\* Lines 42-44 are not inside any try: an exception there (disk full,
\* permission, the process being killed) ends the script with the directory
\* as it is.
save_fails ==
    /\ builder.pc \in {"built", "save", "faiss_open", "faiss_done", "pkl_open"}
    /\ builder' = IdleBuilder
    /\ UNCHANGED <<disk, cache, view>>

-----------------------------------------------------------------------------
(* rag_pipeline.py: load_rag_pipeline *)

\* Python's None (a chain that could not be loaded).
NoChain == [faiss |-> NoFile, pkl |-> NoFile, matched |-> FALSE]

\* Lines 12-55.  os.path.exists only looks at the directory; the embeddings
\* model may fail to initialise (embOk); FAISS.load_local reads index.faiss
\* with faiss.read_index (RuntimeError on an absent or truncated file) and
\* then unpickles index.pkl (FileNotFoundError from open, UnpicklingError on
\* a truncated pickle).  Two whole files load, whichever runs wrote them.
load_rag_pipeline(d, embOk) ==
    IF ~d.dir THEN [exc |-> "FileNotFoundError", chain |-> NoChain]
    ELSE IF ~embOk THEN [exc |-> "OSError", chain |-> NoChain]
    ELSE IF ~d.faiss.ok THEN [exc |-> "RuntimeError", chain |-> NoChain]
    ELSE IF ~d.pkl.there THEN [exc |-> "FileNotFoundError", chain |-> NoChain]
    ELSE IF ~d.pkl.ok THEN [exc |-> "UnpicklingError", chain |-> NoChain]
    ELSE [exc |-> "",
          chain |-> [faiss |-> d.faiss, pkl |-> d.pkl, matched |-> d.matched]]

-----------------------------------------------------------------------------
(* rag_pipeline.py: the retriever, vector_store.as_retriever(k = 3) *)

\* L2 distance between the embedding of query q and entry i of the index:
\* an arbitrary fixed table with ties, not monotone in i.
Dist(q, i) == (i * i + QNum(q) * i + 1) % 4

\* Entry i comes before entry j in the search order: nearer first, ties by
\* insertion order.
Nearer(q, i, j) ==
    \/ Dist(q, i) < Dist(q, j)
    \/ Dist(q, i) = Dist(q, j) /\ i <= j

\* index.search(vector, k): the k nearest of the entries in S, nearest first.
RECURSIVE TopK(_, _, _)
TopK(q, S, k) ==
    IF k = 0 \/ S = {} THEN <<>>
    ELSE LET m == CHOOSE i \in S : \A j \in S : Nearer(q, i, j)
         IN  <<m>> \o TopK(q, S \ {m}, k - 1)

\* Search without the ranking: the first k entries in insertion order.
SearchUnranked(faiss, q, k) ==
    [j \in 1..(IF faiss.n < k THEN faiss.n ELSE k) |-> j]

\* The entry ids the FAISS index file returns for q (padding ids -1 dropped).
Search(faiss, q, k) == TopK(q, 1..faiss.n, k)

\* Chunk i of a docstore.
Document(i) == [page_content |-> <<"chunk", i>>, metadata |-> [source |-> "mock_docs"]]

\* The retriever: search, then index_to_docstore_id[i] and the docstore of
\* index.pkl, which raises KeyError for an id the pickle does not hold.
Retrieve(chain, q) ==
    LET ids == Search(chain.faiss, q, K)
    IN  IF \E j \in 1..Len(ids) : ids[j] > chain.pkl.n
           THEN [exc |-> "KeyError", docs |-> <<>>]
           ELSE [exc |-> "",
                 docs |-> [j \in 1..Len(ids) |-> Document(ids[j])]]

\* create_stuff_documents_chain (line 53) fills {context} with the retrieved
\* texts joined by blank lines, in the order given: the sequence of the texts.
\* (format_docs of lines 9-10 does the same and is never called.)
stuff_documents(docs) == [j \in 1..Len(docs) |-> docs[j].page_content]

-----------------------------------------------------------------------------
(* rag_pipeline.py: the chain and ask_question *)

\* ChainInvoke handing back another context than the one that went into the
\* prompt (the nearest chunk only).
ChainInvokeOtherContext(chain, query, outcome) ==
    LET r == Retrieve(chain, query)
        prompt == [context |-> stuff_documents(r.docs), input |-> query]
    IN  IF r.exc # "" \/ outcome # "ok"
           THEN [exc |-> IF r.exc # "" THEN r.exc ELSE outcome,
                 retrieverReturned |-> r.exc = "", retrieved |-> r.docs,
                 prompts |-> IF r.exc # "" THEN <<>> ELSE <<prompt>>,
                 result |-> [answer |-> <<>>, context |-> <<>>]]
        ELSE [exc |-> "", retrieverReturned |-> TRUE, retrieved |-> r.docs,
              prompts |-> <<prompt>>,
              result |-> [input |-> query, context |-> SubSeq(r.docs, 1, 1),
                          answer |-> <<"llm_text", prompt.input>>]]

\* Lines 51-54, chain.invoke({"input": query}): context = retriever(input),
\* then answer = llm(prompt(context, input)).  prompts is what the language
\* model received; retrieved is what the retriever returned (if it did).
ChainInvoke(chain, query, outcome) ==
    LET r == Retrieve(chain, query)
        prompt == [context |-> stuff_documents(r.docs), input |-> query]
    IN  IF r.exc # ""
           THEN [exc |-> r.exc, retrieverReturned |-> FALSE, retrieved |-> <<>>,
                 prompts |-> <<>>,
                 result |-> [answer |-> <<>>, context |-> <<>>]]
        ELSE IF outcome # "ok"
           THEN [exc |-> outcome, retrieverReturned |-> TRUE, retrieved |-> r.docs,
                 prompts |-> <<prompt>>,
                 result |-> [answer |-> <<>>, context |-> <<>>]]
        ELSE [exc |-> "", retrieverReturned |-> TRUE, retrieved |-> r.docs,
              prompts |-> <<prompt>>,
              result |-> [input |-> query, context |-> r.docs,
                          answer |-> <<"llm_text", prompt.input>>]]

\* No call of ask_question in this run.
NoAsk == [called |-> FALSE]

\* AskInvoke with `except TimeoutError` in place of `except Exception`.
AskInvokeNarrowExcept(query, chain, outcome) ==
    LET r == ChainInvoke(chain, query, outcome)
    IN  [called |-> TRUE, query |-> query, outcome |-> outcome,
         chain |-> chain, raised |-> r.exc \notin {"", "timeout"},
         invoked |-> TRUE, exc |-> r.exc,
         retrieverReturned |-> r.retrieverReturned,
         retrieved |-> r.retrieved, prompts |-> r.prompts,
         result |-> IF r.exc = ""
                       THEN r.result
                       ELSE IF r.exc = "timeout"
                       THEN [answer |-> <<"An error occurred: ", r.exc>>,
                             context |-> <<>>]
                       ELSE [answer |-> <<>>, context |-> <<>>]]

\* Lines 61-65: the try block.  `except Exception` takes every failure of
\* the chain (the retriever's, the language model's, the output parser's).
AskInvoke(query, chain, outcome) ==
    LET r == ChainInvoke(chain, query, outcome)
    IN  [called |-> TRUE, query |-> query, outcome |-> outcome,
         chain |-> chain, raised |-> FALSE, invoked |-> TRUE, exc |-> r.exc,
         retrieverReturned |-> r.retrieverReturned,
         retrieved |-> r.retrieved, prompts |-> r.prompts,
         result |-> IF r.exc = ""
                       THEN r.result
                       ELSE [answer |-> <<"An error occurred: ", r.exc>>,
                             context |-> <<>>]]

\* ask_question without the empty-query guard of lines 59-60.
ask_question_unguarded(query, chain, outcome) == AskInvoke(query, chain, outcome)

\* Lines 57-65.
ask_question(query, chain, outcome) ==
    IF query = ""
       THEN [called |-> TRUE, query |-> query, outcome |-> outcome,
             chain |-> chain, raised |-> FALSE, invoked |-> FALSE, exc |-> "",
             retrieverReturned |-> FALSE, retrieved |-> <<>>, prompts |-> <<>>,
             result |-> [answer |-> <<"Please enter a query.">>,
                         context |-> <<>>]]
       ELSE AskInvoke(query, chain, outcome)

-----------------------------------------------------------------------------
(* lead_scoring.py *)

\* A JSON number and a JSON string (v is only read when t = "int").
IntVal(v) == [t |-> "int", v |-> v, s |-> ""]
StrVal(s) == [t |-> "str", v |-> 0, s |-> s]

\* Values the model may put in the "score" field: JsonOutputParser only
\* parses JSON, it checks neither the type nor the range against LeadScore.
ScoreVals == {IntVal(0), IntVal(1), IntVal(7), IntVal(10), IntVal(11), StrVal("high")}

\* JSON objects the parser can hand back.
Responses ==
    {[score |-> s, reasoning |-> "r", key_factors |-> <<"f">>] : s \in ScoreVals}
    \cup {[reasoning |-> "r", key_factors |-> <<"f">>],
          [score |-> IntVal(7), key_factors |-> <<"f">>],
          [score |-> IntVal(7), rationale |-> "r"]}

NoResponse == [reasoning |-> ""]

\* What can happen to one score_lead call: the file cannot be opened or
\* decoded, the model call fails, the reply is not JSON, the reply is JSON
\* but no object, or the reply is a JSON object.
ScoreOutcomes ==
    {[kind |-> k, value |-> NoResponse] :
        k \in {"file_not_found", "read_error", "llm_error", "not_json", "non_dict"}}
    \cup {[kind |-> "dict", value |-> v] : v \in Responses}

\* Line 64: result['source'] = os.path.basename(document_path)
WithSource(d, src) == ("source" :> src) @@ d

\* Lines 54-69.  Document i is mock_docs/document_i.txt.
score_lead(doc, o) ==
    IF o.kind = "file_not_found"
       THEN [error |-> "File not found.", source |-> doc]
    ELSE IF o.kind = "read_error"
       THEN [error |-> "UnicodeDecodeError", source |-> doc]
    ELSE IF o.kind = "llm_error"
       THEN [error |-> "APITimeoutError", source |-> doc]
    ELSE IF o.kind = "not_json"
       THEN [error |-> "Invalid json output", source |-> doc]
    ELSE IF o.kind = "non_dict"
       THEN [error |-> "TypeError", source |-> doc]
    ELSE WithSource(o.value, doc)

-----------------------------------------------------------------------------
(* app.py: the cached loaders, lines 34-55 *)

NotCached == [cached |-> FALSE]
EmptyCache == [k \in Keys |-> NotCached]

MsgFailed(exc) == <<"error", "Failed to load RAG pipeline: ", exc>>
MsgRunBuild ==
    <<"warning",
      "Please ensure the vector store exists. Run python src/create_vector_store.py if needed.">>
MsgUnexpected(exc) ==
    <<"error", "An unexpected error occurred loading the RAG pipeline: ", exc>>
MsgNotLoaded ==
    <<"warning",
      "One or more AI pipelines could not be loaded. Please check the errors above.">>
MsgNoKey ==
    <<"info", "Please enter your OpenRouter API Key in the sidebar to begin.">>
MsgEnterQuery == <<"warning", "Please enter a query.">>

\* Lines 37-45, the body of load_pipeline_cached.
LoadPipelineBody(d, embOk) ==
    LET r == load_rag_pipeline(d, embOk)
    IN  IF r.exc = "" THEN [rag |-> r.chain, msgs |-> <<>>, exc |-> ""]
        ELSE IF r.exc \in {"ValueError", "FileNotFoundError"}
           THEN [rag |-> NoChain, msgs |-> <<MsgFailed(r.exc), MsgRunBuild>>,
                 exc |-> r.exc]
        ELSE [rag |-> NoChain, msgs |-> <<MsgUnexpected(r.exc)>>, exc |-> r.exc]

\* load_pipeline_cached keeping only a loaded pipeline: a stored None counts
\* as a miss and the body runs again.
load_pipeline_cached_retrying(c, key, d, embOk) ==
    IF c[key].cached /\ c[key].rag # NoChain
       THEN [rag |-> c[key].rag, msgs |-> c[key].msgs, loadCalls |-> 0,
             exc |-> "", cache |-> c]
       ELSE LET r == LoadPipelineBody(d, embOk)
            IN  [rag |-> r.rag, msgs |-> r.msgs, loadCalls |-> 1, exc |-> r.exc,
                 cache |-> [c EXCEPT ![key] =
                               [cached |-> TRUE, rag |-> r.rag, msgs |-> r.msgs]]]

\* Lines 34-45 under @st.cache_resource: a hit returns the stored value (None
\* included) and replays the messages the body showed; a miss runs the body
\* and stores what it returned.
load_pipeline_cached(c, key, d, embOk) ==
    IF c[key].cached
       THEN [rag |-> c[key].rag, msgs |-> c[key].msgs, loadCalls |-> 0,
             exc |-> "", cache |-> c]
       ELSE LET r == LoadPipelineBody(d, embOk)
            IN  [rag |-> r.rag, msgs |-> r.msgs, loadCalls |-> 1, exc |-> r.exc,
                 cache |-> [c EXCEPT ![key] =
                               [cached |-> TRUE, rag |-> r.rag, msgs |-> r.msgs]]]

\* Lines 61-76 for a non-empty key: Clear Cache (clear, then st.rerun), the
\* two cached loaders, and st.stop when a pipeline is missing.
\* get_lead_scorer only constructs objects, so the scorer is always there.
LoadPipelines(key, clear, embOk) ==
    LET lp == load_pipeline_cached(IF clear THEN EmptyCache ELSE cache,
                                   key, disk, embOk)
    IN  [rag |-> lp.rag, loaded |-> lp.rag # NoChain, loadCalls |-> lp.loadCalls,
         exc |-> lp.exc, cache |-> lp.cache, cleared |-> clear,
         msgs |-> IF lp.rag = NoChain THEN Append(lp.msgs, MsgNotLoaded)
                  ELSE lp.msgs]

-----------------------------------------------------------------------------
(* app.py: Score All Documents, lines 129-136 *)

HasScore(s) == "score" \in DOMAIN s

\* Python's < on two score values; int against str raises TypeError.
Comparable(a, b) == a.t = b.t
Less(a, b) == a.t = "int" /\ b.t = "int" /\ a.v < b.v

\* sorted(..., key=lambda x: x['score'], reverse=True): stable, descending.
InsertDesc(r, x) ==
    LET before == {p \in 1..Len(r) : ~Less(r[p].score, x.score)}
        n == IF \A p \in 1..Len(r) : p \in before THEN Len(r)
             ELSE (CHOOSE p \in 1..Len(r) :
                      p \notin before /\ \A q \in 1..(p - 1) : q \in before) - 1
    IN  SubSeq(r, 1, n) \o <<x>> \o SubSeq(r, n + 1, Len(r))

RECURSIVE SortedDesc(_)
SortedDesc(seq) ==
    IF seq = <<>> THEN <<>>
    ELSE InsertDesc(SortedDesc(SubSeq(seq, 1, Len(seq) - 1)), seq[Len(seq)])

NoBatch == [ran |-> FALSE]

\* Lines 131-136.  fault: sorted raised TypeError, nothing is displayed.
ScoreAllDocuments(outcomes) ==
    LET all_scores == [i \in 1..NumDocs |-> score_lead(i, outcomes[i])]
        successful_scores == SelectSeq(all_scores, HasScore)
        fault == \E i, j \in 1..Len(successful_scores) :
                    ~Comparable(successful_scores[i].score,
                                successful_scores[j].score)
    IN  [ran |-> TRUE, outcomes |-> outcomes, all_scores |-> all_scores,
         successful_scores |-> successful_scores, fault |-> fault,
         sorted_scores |-> IF fault THEN <<>> ELSE SortedDesc(successful_scores)]

-----------------------------------------------------------------------------
(* app.py: Score Selected Document, lines 116-125 *)

NoSingle == [ran |-> FALSE]

\* The keys of score_result the branch of lines 121-123 subscripts.
SingleReads == {"score", "rationale"}

\* Lines 120-125.  elements: what the view displays, in order; metric: the
\* parts of f"{score_result['score']}/100"; info: the text after
\* "**Rationale:** "; fault: the exception that ends the run, if any
\* (score_result['rationale'] raises KeyError when the key is absent, after
\* the metric has been displayed).
ScoreSelectedDocument(doc, o) ==
    LET score_result == score_lead(doc, o)
    IN  IF HasScore(score_result)
           THEN IF "rationale" \in DOMAIN score_result
                   THEN [ran |-> TRUE, score_result |-> score_result,
                         elements |-> <<"metric", "info">>,
                         metric |-> <<score_result.score, "/100">>,
                         info |-> <<score_result.rationale>>, fault |-> ""]
                   ELSE [ran |-> TRUE, score_result |-> score_result,
                         elements |-> <<"metric">>,
                         metric |-> <<score_result.score, "/100">>,
                         info |-> <<>>, fault |-> "KeyError"]
           ELSE [ran |-> TRUE, score_result |-> score_result,
                 elements |-> <<"error">>, metric |-> <<>>, info |-> <<>>,
                 fault |-> ""]

-----------------------------------------------------------------------------
(* The state machine *)

\* msgs: what load/stop messages the run showed; loadCalls: calls of
\* load_rag_pipeline in the run; loadExc: what that call raised; wholeAtLoad:
\* whether the path held one complete index when the run started; cleared:
\* whether the run came from Clear Cache;
\* chunking: the call of load_and_chunk_documents, when the run was one;
\* single: the Score Selected Document view, when the run showed it.
View(kind, key, lp, ask, batch) ==
    [kind |-> kind, key |-> key, msgs |-> lp.msgs, loaded |-> lp.loaded,
     loadCalls |-> lp.loadCalls, loadExc |-> lp.exc, cleared |-> lp.cleared,
     wholeAtLoad |-> CompleteIndex(disk), ask |-> ask, batch |-> batch,
     chunking |-> NoChunking, single |-> NoSingle]

NoLoad ==
    [msgs |-> <<>>, loaded |-> FALSE, loadCalls |-> 0, exc |-> "",
     cleared |-> FALSE]

Init ==
    /\ disk = NoDisk
    /\ builder = IdleBuilder
    /\ cache = EmptyCache
    /\ view = View("none", "", NoLoad, NoAsk, NoBatch)

\* app.py lines 61-63: no API key, st.info and st.stop.
AppNoKey ==
    /\ view' = View("app", "", [NoLoad EXCEPT !.msgs = <<MsgNoKey>>], NoAsk, NoBatch)
    /\ UNCHANGED <<disk, builder, cache>>

\* A script run with no button of the tabs pressed (lines 61-79), after
\* Clear Cache or any other widget change.
AppRerun(key, clear, embOk) ==
    LET lp == LoadPipelines(key, clear, embOk)
    IN  /\ cache' = lp.cache
        /\ view' = View("app", key, lp, NoAsk, NoBatch)
        /\ UNCHANGED <<disk, builder>>

\* A script run with Get Answer pressed: lines 61-79 and 87-98.
AppGetAnswer(key, query, outcome, embOk) ==
    LET lp == LoadPipelines(key, FALSE, embOk)
    IN  /\ cache' = lp.cache
        /\ view' =
              IF ~lp.loaded THEN View("app", key, lp, NoAsk, NoBatch)
              ELSE IF query # ""
                 THEN View("app", key, lp, ask_question(query, lp.rag, outcome),
                           NoBatch)
              ELSE View("app", key, [lp EXCEPT !.msgs = Append(@, MsgEnterQuery)],
                        NoAsk, NoBatch)
        /\ UNCHANGED <<disk, builder>>

\* A script run with Score All Documents pressed: lines 61-79 and 129-136.
AppScoreAll(key, outcomes, embOk) ==
    LET lp == LoadPipelines(key, FALSE, embOk)
    IN  /\ cache' = lp.cache
        /\ view' =
              IF ~lp.loaded THEN View("app", key, lp, NoAsk, NoBatch)
              ELSE View("app", key, lp, NoAsk, ScoreAllDocuments(outcomes))
        /\ UNCHANGED <<disk, builder>>

\* A script run with Score Selected Document pressed: lines 61-79, 116-125.
AppScoreSelected(key, doc, outcome, embOk) ==
    LET lp == LoadPipelines(key, FALSE, embOk)
    IN  /\ cache' = lp.cache
        /\ view' =
              IF ~lp.loaded THEN View("app", key, lp, NoAsk, NoBatch)
              ELSE [View("app", key, lp, NoAsk, NoBatch)
                       EXCEPT !.single = ScoreSelectedDocument(doc, outcome)]
        /\ UNCHANGED <<disk, builder>>

\* rag_pipeline.py used as a library (and its lines 67-79): a caller loads
\* the chain and calls ask_question with any query string.
AskQuestionCall(query, outcome) ==
    LET r == load_rag_pipeline(disk, TRUE)
    IN  /\ r.exc = ""
        /\ view' = View("call", "", [NoLoad EXCEPT !.loaded = TRUE, !.loadCalls = 1],
                        ask_question(query, r.chain, outcome), NoBatch)
        /\ UNCHANGED <<disk, builder, cache>>

\* The embeddings model is initialised (and may fail) only when the loader
\* body runs and gets past the os.path.exists check.
EmbChoices(key, clear) ==
    IF (~clear /\ cache[key].cached) \/ ~disk.dir THEN {TRUE} ELSE BOOLEAN

Build ==
    \/ \E n \in 0..MaxChunks, ok \in BOOLEAN : create_vector_store(n, ok)
    \/ makedirs
    \/ save_faiss_open
    \/ save_faiss_write
    \/ save_pkl_open
    \/ save_pkl_write
    \/ save_fails

Next ==
    \/ Build
    \/ AppNoKey
    \/ \E key \in Keys, clear \in BOOLEAN :
          \E embOk \in EmbChoices(key, clear) : AppRerun(key, clear, embOk)

\* The index on disk over its life, and the script loading it.
Spec == Init /\ [][Next]_vars

\* What the directory can hold when nobody is writing it: nothing, or two
\* whole files, of one run (matched) or of two (a rebuild that failed between
\* index.faiss and index.pkl).
SettledDisks ==
    {NoDisk} \cup
    {d \in {[dir |-> TRUE, faiss |-> CompleteFile(fn), pkl |-> CompleteFile(pn),
             matched |-> m] :
                fn \in 1..MaxChunks, pn \in 1..MaxChunks, m \in BOOLEAN} :
        d.matched => d.faiss.n = d.pkl.n}

InitAsk ==
    /\ disk \in SettledDisks
    /\ builder = IdleBuilder
    /\ cache = EmptyCache
    /\ view = View("none", "", NoLoad, NoAsk, NoBatch)

NextAsk ==
    \/ \E key \in Keys, clear \in BOOLEAN :
          \E embOk \in EmbChoices(key, clear) : AppRerun(key, clear, embOk)
    \/ \E key \in Keys, q \in Queries :
          \E o \in LlmChoices(q), embOk \in EmbChoices(key, FALSE) :
             AppGetAnswer(key, q, o, embOk)
    \/ \E q \in Queries : \E o \in LlmChoices(q) : AskQuestionCall(q, o)

\* Question answering over an index that is not being rebuilt.
SpecAsk == InitAsk /\ [][NextAsk]_vars

\* The scoring tab on its own: the index has been built once and is whole.
InitScore ==
    /\ disk = [dir |-> TRUE, faiss |-> CompleteFile(K), pkl |-> CompleteFile(K),
               matched |-> TRUE]
    /\ builder = IdleBuilder
    /\ cache = EmptyCache
    /\ view = View("none", "", NoLoad, NoAsk, NoBatch)

NextScore ==
    \/ \E key \in Keys, clear \in BOOLEAN :
          \E embOk \in EmbChoices(key, clear) : AppRerun(key, clear, embOk)
    \/ \E key \in Keys, outcomes \in [1..NumDocs -> ScoreOutcomes] :
          \E embOk \in EmbChoices(key, FALSE) : AppScoreAll(key, outcomes, embOk)
    \/ \E key \in Keys, doc \in 1..NumDocs, o \in ScoreOutcomes :
          \E embOk \in EmbChoices(key, FALSE) : AppScoreSelected(key, doc, o, embOk)

SpecScore == InitScore /\ [][NextScore]_vars

\* The files of mock_docs as a run of preprocess.py finds them: documents[i]
\* is the text of the i-th file.
Corpora == UNION {[1..n -> Texts(MaxDocLen)] : n \in 0..NumDocs}

InitChunk ==
    /\ disk = NoDisk
    /\ builder = IdleBuilder
    /\ cache = EmptyCache
    /\ \E documents \in Corpora :
          view = [View("none", "", NoLoad, NoAsk, NoBatch)
                     EXCEPT !.chunking = [ran |-> FALSE, documents |-> documents]]

\* preprocess.py run on the corpus (its lines 42-48, and create_vector_store.py
\* line 20).
LoadAndChunkCall ==
    /\ view' = [View("call", "", NoLoad, NoAsk, NoBatch)
                   EXCEPT !.chunking =
                             load_and_chunk_documents(view.chunking.documents)]
    /\ UNCHANGED <<disk, builder, cache>>

NextChunk == LoadAndChunkCall

\* The chunker applied to every corpus of at most NumDocs short documents.
SpecChunk == InitChunk /\ [][NextChunk]_vars

-----------------------------------------------------------------------------
(* ask_question: C1, C2, C9 *)

\* The call of ask_question the current state shows, if any.
Asked == view.ask.called

\* What the chain invocation of the shown call meets: the retriever's
\* exception if it raises, else the language model's outcome.
ChainFailure(a) ==
    LET r == Retrieve(a.chain, a.query)
    IN  IF r.exc # "" THEN r.exc ELSE IF a.outcome # "ok" THEN a.outcome ELSE ""

\* C1: a call of ask_question with the empty query returns the fixed answer
\* "Please enter a query." with an empty context, and neither the retriever
\* nor the language model is invoked during the call.
C1_EmptyQueryShortCircuits ==
    (Asked /\ view.ask.query = "") =>
        /\ ~view.ask.raised
        /\ view.ask.result =
              [answer |-> <<"Please enter a query.">>, context |-> <<>>]
        /\ ~view.ask.invoked
        /\ ~view.ask.retrieverReturned
        /\ view.ask.prompts = <<>>

\* ask_question was called with "" on a loaded chain whose model would answer.
C1_Witness ==
    /\ Asked
    /\ view.ask.query = ""
    /\ view.ask.chain # NoChain
    /\ view.ask.chain.matched

\* C2: for a non-empty query whose chain invocation fails (retriever error,
\* timeout, quota, malformed response), ask_question does not raise; it
\* returns an answer that embeds the error description, with empty context.
C2_ChainFailureBecomesAnswer ==
    (Asked /\ view.ask.query # "" /\ ChainFailure(view.ask) # "") =>
        /\ ~view.ask.raised
        /\ view.ask.result =
              [answer |-> <<"An error occurred: ", ChainFailure(view.ask)>>,
               context |-> <<>>]

\* A non-empty query met a malformed model response.
C2_Witness ==
    /\ Asked
    /\ view.ask.query # ""
    /\ view.ask.outcome = "malformed"
    /\ ChainFailure(view.ask) = "malformed"

\* C9: on a successful ask_question call the language model is invoked
\* exactly once, and the context returned is exactly the sequence of chunks
\* the retriever returned for the query, in retrieval order, the same
\* sequence whose texts went into the prompt.
C9_ContextIsWhatWasRetrievedAndPrompted ==
    (Asked /\ view.ask.query # "" /\ ChainFailure(view.ask) = "") =>
        /\ ~view.ask.raised
        /\ Len(view.ask.prompts) = 1
        /\ view.ask.retrieverReturned
        /\ view.ask.result.context = view.ask.retrieved
        /\ view.ask.result.context = Retrieve(view.ask.chain, view.ask.query).docs
        /\ view.ask.prompts[1].context = stuff_documents(view.ask.result.context)
        /\ view.ask.prompts[1].input = view.ask.query

\* A successful call from the Get Answer button that retrieved k chunks.
C9_Witness ==
    /\ view.kind = "app"
    /\ Asked
    /\ view.ask.query # ""
    /\ ChainFailure(view.ask) = ""
    /\ Len(view.ask.result.context) = K

-----------------------------------------------------------------------------
(* The retriever: C10 *)

\* The index entry a retrieved chunk is.
EntryOf(doc) == doc.page_content[2]

-----------------------------------------------------------------------------
(* Scoring: C3, C4, C5, C6 *)

InRange(score) == score.t = "int" /\ score.v \in 1..10

\* A parsed reply that follows the LeadScore schema of lines 14-17, with the
\* range its description and the prompt give.
FollowsSchema(v) ==
    /\ DOMAIN v = {"score", "reasoning", "key_factors"}
    /\ InRange(v.score)

\* The batch the current state shows, if any.
Scored == view.batch.ran

\* Document i is among the successful scores / in the ranking.
Successful(i) ==
    \E j \in 1..Len(view.batch.successful_scores) :
        view.batch.successful_scores[j].source = i
Ranked(i) ==
    \E j \in 1..Len(view.batch.sorted_scores) :
        view.batch.sorted_scores[j].source = i

\* C3: in batch scoring, a model response whose score field is missing or
\* lies outside 1..10 is excluded from the successful scores and never
\* appears in the sorted ranking.
C3_BadScoresExcluded ==
    Scored =>
        \A i \in 1..NumDocs :
            LET o == view.batch.outcomes[i]
            IN  (o.kind = "dict"
                   /\ (~HasScore(o.value)
                         \/ (o.value.score.t = "int" /\ o.value.score.v \notin 1..10)))
                => (~Successful(i) /\ ~Ranked(i))

\* The documents of the batch that failed: unreadable file, model failure,
\* malformed model response (not JSON, no object, or off the schema).
Failed(o) == o.kind # "dict" \/ ~FollowsSchema(o.value)

\* C4: batch scoring of N documents never aborts: it yields exactly N
\* results, and every failed document is recorded as a failed result, not
\* as a success (N documents with f failures give N - f successful scores).
C4_EveryFailureRecorded ==
    Scored =>
        /\ Len(view.batch.all_scores) = NumDocs
        /\ \A i \in 1..NumDocs :
              Failed(view.batch.outcomes[i]) => ~HasScore(view.batch.all_scores[i])
        /\ Len(view.batch.successful_scores) =
              NumDocs - Cardinality({i \in 1..NumDocs : Failed(view.batch.outcomes[i])})

IsLeadScore(r) ==
    /\ {"score", "reasoning", "key_factors"} \subseteq DOMAIN r
    /\ InRange(r.score)
IsScoringError(r) == "error" \in DOMAIN r /\ ~HasScore(r)

\* C5: score_lead returns either a LeadScore (integer score in 1..10,
\* reasoning, key factors) or a ScoringError; a response that fails the
\* schema yields the ScoringError, never a LeadScore, never an exception.
C5_LeadScoreOrScoringError ==
    Scored =>
        \A i \in 1..NumDocs :
            LET r == view.batch.all_scores[i]
            IN  /\ IsLeadScore(r) \/ IsScoringError(r)
                /\ Failed(view.batch.outcomes[i]) => IsScoringError(r)

\* C6: the ranking holds exactly the results that carry a score field, in
\* non-increasing order of score, and producing it never faults.
C6_RankingNeverFaults ==
    Scored =>
        /\ ~view.batch.fault
        /\ Len(view.batch.sorted_scores) =
              Cardinality({i \in 1..NumDocs : HasScore(view.batch.all_scores[i])})
        /\ \A i \in 1..NumDocs : HasScore(view.batch.all_scores[i]) <=> Ranked(i)
        /\ \A j \in 1..(Len(view.batch.sorted_scores) - 1) :
              ~Less(view.batch.sorted_scores[j].score,
                    view.batch.sorted_scores[j + 1].score)

-----------------------------------------------------------------------------
(* The persisted index: C7, C8 *)

Shown(msg) == \E i \in 1..Len(view.msgs) : view.msgs[i] = msg

\* C7: loading the pipeline when the index path is missing or holds no
\* complete index fails with the index-not-found error, which the caller
\* surfaces as "run the build step first", and never yields a pipeline.
C7_NoIndexMeansBuildFirst ==
    (view.kind = "app" /\ view.loadCalls = 1 /\ ~view.wholeAtLoad
        /\ view.loadExc # "OSError") =>
        /\ ~view.loaded
        /\ Shown(MsgRunBuild)

\* C8: a rebuild overwrites the persisted index atomically: a path that
\* holds a complete index holds a complete index after every step, also
\* part-way through the save and after a failure of the save.
C8_RebuildIsAtomic == [][CompleteIndex(disk) => CompleteIndex(disk')]_vars

-----------------------------------------------------------------------------
(* The chunker: C11 *)

Chunked == view.chunking.ran

\* The texts of the chunks made from the i-th document, in order.
ChunkTextsOf(i) ==
    LET mine == SelectSeq(view.chunking.chunks, LAMBDA c : c.metadata.source = i)
    IN  [j \in 1..Len(mine) |-> mine[j].page_content]

\* C11: a document shorter than chunk_size yields exactly one chunk whose
\* text is the whole document, and an empty document yields no chunk, whatever
\* the other documents of the corpus are.
C11_ShortDocumentIsOneWholeChunk ==
    Chunked =>
        \A i \in 1..Len(view.chunking.documents) :
            LET text == view.chunking.documents[i]
            IN  Len(text) < chunk_size =>
                   ChunkTextsOf(i) = IF text = <<>> THEN <<>> ELSE <<text>>

-----------------------------------------------------------------------------
(* The cached loader: C12 *)

\* load_pipeline_cached has returned a failure for the key and it is stored.
FailureCached(key) == cache[key].cached /\ cache[key].rag = NoChain

\* The step is a run of the script with the key (the builder does not move).
ScriptRun(key) ==
    /\ view'.kind = "app"
    /\ view'.key = key
    /\ UNCHANGED <<disk, builder>>

\* C12: a failed load is not retried automatically.  Once a failure is stored
\* for a key, a run with that key that does not come from Clear Cache reports
\* the pipeline as not loaded and stops without calling load_rag_pipeline,
\* whatever the index on disk is by then, and leaves the stored failure in
\* place; the run after Clear Cache calls load_rag_pipeline again.
C12_FailedLoadNotRetried ==
    [][\A key \in Keys :
          (FailureCached(key) /\ ScriptRun(key)) =>
             IF view'.cleared
                THEN view'.loadCalls = 1
                ELSE /\ view'.loadCalls = 0
                     /\ ~view'.loaded
                     /\ \E i \in 1..Len(view'.msgs) : view'.msgs[i] = MsgNotLoaded
                     /\ cache'[key] = cache[key]]_vars

\* A run served the stored failure although the path held a complete index
\* when it started.
C12_Witness ==
    /\ view.kind = "app"
    /\ view.key \in Keys
    /\ FailureCached(view.key)
    /\ ~view.cleared
    /\ view.loadCalls = 0
    /\ ~view.loaded
    /\ view.wholeAtLoad

\* After that, Clear Cache made the next run load the index.
C12_WitnessCleared ==
    /\ view.kind = "app"
    /\ view.cleared
    /\ view.loadCalls = 1
    /\ view.loaded

-----------------------------------------------------------------------------
(* The single-document view: C13 *)

\* The fields of a result of score_lead that follows LeadScore.
LeadScoreFields == {"score", "reasoning", "key_factors", "source"}

\* C13: whenever score_lead returns a result with a score field for the
\* selected document, the single-document view displays the score and the
\* result's reasoning text without faulting, and reads only fields that a
\* result following the LeadScore schema has.
C13_SingleViewShowsScoreAndReasoning ==
    (view.single.ran /\ HasScore(view.single.score_result)) =>
        /\ view.single.fault = ""
        /\ view.single.elements = <<"metric", "info">>
        /\ view.single.metric[1] = view.single.score_result.score
        /\ "reasoning" \in DOMAIN view.single.score_result
              => view.single.info = <<view.single.score_result.reasoning>>
        /\ SingleReads \subseteq LeadScoreFields

=============================================================================
